---- MODULE Spec2Model ----
(***************************************************************************)
(* Tool dispatch servers of the mcp-servers repository: Telegram,          *)
(* Supabase, Obsidian, Bluesky, RSS, iOS simulator, Apple Shortcuts and    *)
(* the demo template.  One process of one adapter is modelled: its start   *)
(* up, its List-Tools / Call-Tool / Read-Resource handlers, the return of  *)
(* the backing capability a handler awaits, and the SIGINT path.           *)
(***************************************************************************)
EXTENDS Integers, Sequences, FiniteSets, TLC

VARIABLES
  adapter,            \* which server this process runs
  env,                \* process.env restricted to the variables the server reads
  phase,              \* "start", "login", "constructed", "connecting", "serving",
                      \* "closing", "exited"
  connected,          \* server.connect(transport) has completed
  channelClosed,      \* server.close() has completed
  exitStatus,         \* "none" while running, else the exit status
  signalled,          \* SIGINT was delivered
  loginOutcome,       \* Bluesky: outcome of session.login
  served,             \* number of Call-Tool and resource requests handed to a handler
  req,                \* the request being handled, or the last one handled
  capLog,             \* capability operations invoked for req
  responses,          \* responses sent for req
  availableShortcuts, \* Shortcuts: the module-level shortcut list
  lastRefresh,        \* Shortcuts: who ran the last updateShortcutsList, and how it ended
  prevFailed,         \* an earlier invocation had its capability call fail
  capArgs,            \* arguments the handler works with when it invokes the capability
  prevOutcome,        \* class and shape of the last malformed or capability-failed invocation
  capResult,          \* what the capability call of req resolved with
  registration,       \* which setRequestHandler calls are in force: none, first, final
  firstCatalog,       \* what the first List-Tools request returned
  vault,              \* Obsidian: the content of each note file, or "absent"
  search,             \* Obsidian: the search_notes invocation in flight
  pendingWrites,      \* Obsidian: the write_note invocations awaiting fs.writeFile
  writesStarted,      \* Obsidian: number of write_note invocations begun
  snaps,              \* the vault contents that existed while the search ran
  lastGood,           \* Shortcuts: the complete list of the most recent successful refresh
  handle,             \* the client handle the handlers call the capability on
  handleWrites,       \* number of assignments to the client handle
  usedHandle,         \* the handle the capability call of req was made on
  rss,                \* RSS: a parsed feed, the arguments of one call and the items returned
  notes,              \* Obsidian: the note files, who wrote them, the last read or write
  query               \* Supabase: the query one call builds and executes

\* the state of the request handlers of one process
mainVars ==
  <<adapter, env, phase, connected, channelClosed, exitStatus, signalled, loginOutcome,
    served, req, capLog, responses, availableShortcuts, lastRefresh, prevFailed, capArgs,
    prevOutcome, capResult, registration, firstCatalog, lastGood, handle, handleWrites,
    usedHandle>>

\* the state of overlapping Obsidian invocations
concVars == <<vault, search, pendingWrites, writesStarted, snaps>>

\* the inputs and results of handlers examined one call at a time
pureVars == <<rss, notes, query>>

vars == <<mainVars, concVars, pureVars>>

(* ---- bounds ---- *)
MaxRequests == 2
MaxLines == 2
MaxWrites == 2

(* ---- adapters ---- *)
Adapters ==
  {"Telegram", "Supabase", "Obsidian", "Bluesky", "RSS", "IosSimulator", "Shortcuts", "Template"}

NamedAdapters ==
  {"Telegram", "Supabase", "Obsidian", "Bluesky", "RSS", "IosSimulator", "Shortcuts"}

(* ---- argument values: a JavaScript value reduced to its type and text ---- *)
VStr == [type |-> "string", s |-> "x"]
VEmpty == [type |-> "string", s |-> ""]
VNum == [type |-> "number", s |-> "1"]
ArgValues == {VStr, VEmpty, VNum}

\* JavaScript truthiness of an argument value ("" is falsy)
Truthy(v) == v.s # ""

\* request.params.arguments: present = FALSE is `undefined`
NoArgs == [present |-> FALSE, fields |-> <<>>]
Has(args, f) == args.present /\ f \in DOMAIN args.fields
IsString(args, f) == Has(args, f) /\ args.fields[f].type = "string"
IsTruthy(args, f) == Has(args, f) /\ Truthy(args.fields[f])

(* ---- required configuration ---- *)
RequiredConfig(a) ==
  CASE a = "Supabase" -> {"SUPABASE_URL", "SUPABASE_KEY"}
    [] a = "Telegram" -> {"TELEGRAM_BOT_TOKEN"}
    [] a = "Obsidian" -> {"OBSIDIAN_VAULT_PATH"}
    [] a = "Bluesky" -> {"BLUESKY_APP_KEY", "BLUESKY_IDENTIFIER"}
    [] OTHER -> {}

\* a process.env entry: unset, set to the empty string, or set
EnvValues == {"<unset>", "", "x"}
EnvFalsy(v) == v \in {"<unset>", ""}

\* `!A || !B` of the start-up checks
MissingConfigAll(a, e) ==
  RequiredConfig(a) # {} /\ \A k \in RequiredConfig(a) : EnvFalsy(e[k])

MissingConfig(a, e) == \E k \in RequiredConfig(a) : EnvFalsy(e[k])

(* ---- tool catalogs, in advertised order ---- *)
Catalog(a) ==
  CASE a = "Telegram" -> <<"send_message", "get_chat", "send_photo", "get_updates">>
    [] a = "Supabase" ->
         <<"execute_sql", "query_data", "insert_data", "update_data", "delete_data", "rpc">>
    [] a = "Obsidian" -> <<"read_note", "write_note", "search_notes">>
    [] a = "Bluesky" ->
         <<"bluesky_get_profile", "bluesky_get_posts", "bluesky_search_posts",
           "bluesky_get_follows", "bluesky_get_followers", "bluesky_get_liked_posts",
           "bluesky_get_personal_feed", "bluesky_search_profiles">>
    [] a = "RSS" -> <<"fetch_feed", "get_feed_items">>
    [] a = "IosSimulator" ->
         <<"list_simulators", "boot_simulator", "shutdown_simulator", "install_app", "launch_app">>
    [] a = "Shortcuts" -> <<"run_shortcut", "list_shortcuts">>
    [] OTHER -> <<"calculate_sum">>

\* the template's first ListTools handler returns `tools: []`
TemplateFirstCatalog == <<>>

\* a catalog that also advertises every stored shortcut
LiveCatalogWithShortcuts(a, reg) ==
  IF a = "Shortcuts" THEN Catalog(a) \o availableShortcuts ELSE Catalog(a)

\* what the ListTools handler in force returns
LiveCatalog(a, reg) ==
  IF a = "Template" /\ reg = "first" THEN TemplateFirstCatalog ELSE Catalog(a)

Range(s) == {s[i] : i \in DOMAIN s}
CatalogNames(a) == Range(Catalog(a))

\* inputSchema.properties of a tool
Props(name) ==
  CASE name = "send_message" -> {"chat_id", "text", "parse_mode"}
    [] name = "get_chat" -> {"chat_id"}
    [] name = "send_photo" -> {"chat_id", "photo", "caption"}
    [] name = "get_updates" -> {"limit", "timeout"}
    [] name = "execute_sql" -> {"query"}
    [] name = "query_data" -> {"table", "select", "filters", "limit"}
    [] name = "insert_data" -> {"table", "data"}
    [] name = "update_data" -> {"table", "data", "filters"}
    [] name = "delete_data" -> {"table", "filters"}
    [] name = "rpc" -> {"function", "params"}
    [] name = "read_note" -> {"path"}
    [] name = "write_note" -> {"path", "content", "frontmatter"}
    [] name = "search_notes" -> {"query"}
    [] name \in {"bluesky_search_posts", "bluesky_search_profiles"} -> {"query", "limit", "cursor"}
    [] name \in {"bluesky_get_posts", "bluesky_get_follows", "bluesky_get_followers",
                 "bluesky_get_liked_posts", "bluesky_get_personal_feed"} -> {"limit", "cursor"}
    [] name = "fetch_feed" -> {"url", "limit"}
    [] name = "get_feed_items" -> {"url", "limit", "filter"}
    [] name \in {"boot_simulator", "shutdown_simulator"} -> {"deviceId"}
    [] name = "install_app" -> {"deviceId", "appPath"}
    [] name = "launch_app" -> {"deviceId", "bundleId"}
    [] name = "run_shortcut" -> {"name", "input"}
    [] name = "calculate_sum" -> {"a", "b"}
    [] OTHER -> {}

\* inputSchema.required of a tool
Required(name) ==
  CASE name = "send_message" -> {"chat_id", "text"}
    [] name = "get_chat" -> {"chat_id"}
    [] name = "send_photo" -> {"chat_id", "photo"}
    [] name = "execute_sql" -> {"query"}
    [] name = "query_data" -> {"table", "select"}
    [] name = "insert_data" -> {"table", "data"}
    [] name = "update_data" -> {"table", "data", "filters"}
    [] name = "delete_data" -> {"table", "filters"}
    [] name = "rpc" -> {"function"}
    [] name = "read_note" -> {"path"}
    [] name = "write_note" -> {"path", "content"}
    [] name = "search_notes" -> {"query"}
    [] name \in {"bluesky_search_posts", "bluesky_search_profiles"} -> {"query"}
    [] name \in {"fetch_feed", "get_feed_items"} -> {"url"}
    [] name \in {"boot_simulator", "shutdown_simulator"} -> {"deviceId"}
    [] name = "install_app" -> {"deviceId", "appPath"}
    [] name = "launch_app" -> {"deviceId", "bundleId"}
    [] name = "run_shortcut" -> {"name"}
    [] name = "calculate_sum" -> {"a", "b"}
    [] OTHER -> {}

(* ---- responses ---- *)
\* one content block {type: 'text', text}
TextBlock(text) == [type |-> "text", text |-> text]

\* a returned object that has a `content` array; isError is "absent" when the
\* object has no such key
Envelope(text, isErr) ==
  [kind |-> "result", code |-> "none", message |-> <<>>, hasContent |-> TRUE,
   content |-> <<TextBlock(text)>>, isError |-> isErr, extra |-> "none", tools |-> <<>>]

\* a returned object without `content`: {} (extra = "none") or {toolResult: ...}
BareResult(extra) ==
  [kind |-> "result", code |-> "none", message |-> <<>>, hasContent |-> FALSE,
   content |-> <<>>, isError |-> "absent", extra |-> extra, tools |-> <<>>]

\* an error thrown out of the handler, delivered as a JSON-RPC error response
ProtocolError(code, message) ==
  [kind |-> "error", code |-> code, message |-> message, hasContent |-> FALSE,
   content |-> <<>>, isError |-> "absent", extra |-> "none", tools |-> <<>>]

\* a listing that returns every tool twice
ListingTwice(tools) ==
  [kind |-> "result", code |-> "none", message |-> <<>>, hasContent |-> FALSE,
   content |-> <<>>, isError |-> "absent", extra |-> "tools", tools |-> tools \o tools]

\* {tools: [...]}
Listing(tools) ==
  [kind |-> "result", code |-> "none", message |-> <<>>, hasContent |-> FALSE,
   content |-> <<>>, isError |-> "absent", extra |-> "tools", tools |-> tools]

\* {contents: [{uri, mimeType, text}]} of a resource read
ResourceContents(text) ==
  [kind |-> "result", code |-> "none", message |-> <<>>, hasContent |-> FALSE,
   content |-> <<[type |-> "resource", text |-> text]>>, isError |-> "absent",
   extra |-> "contents", tools |-> <<>>]

\* {resources: [...]}
ResourceListing ==
  [kind |-> "result", code |-> "none", message |-> <<>>, hasContent |-> FALSE,
   content |-> <<>>, isError |-> "absent", extra |-> "resources", tools |-> <<>>]

\* message of `new McpError(code, message)`
McpMessage(code, message) == <<"MCP error ", code, ": ">> \o message

\* `new McpError(code, message)` thrown out of a handler
McpError(code, message) == ProtocolError(code, McpMessage(code, message))

\* a plain Error thrown out of a handler: it has no protocol code of its own
\* and is answered with the InternalError code
PlainError(message) == ProtocolError("InternalError", message)

\* JSON.stringify(value...) of a capability result
JsonText(value) == <<"json:", value>>

\* message of the TypeError raised by destructuring `undefined`
DestructureMessage == <<"Cannot destructure property of undefined">>

UnknownToolMessage(name) == <<"Unknown tool: ", name>>

(* ---- capability outcomes ---- *)
\* "ok": the call resolves with a result; "reject": it rejects;
\* "errorField": it resolves with {data: null, error} (Supabase only)
Outcomes(a) == IF a = "Supabase" THEN {"ok", "reject", "errorField"} ELSE {"ok", "reject"}
CauseMessage == <<"cause">>
ResultValue == "result"

\* a value a capability resolves with, reduced to what JSON.stringify makes of
\* it: "json" values are rendered as they are, an "object" holds something
\* JSON cannot carry (the Date gray-matter makes of a YAML timestamp), a
\* "string" is raw command output, "undefined" is the result of a void call
NoResult == [t |-> "none", v |-> "", pieces |-> <<>>]
VoidResult == [t |-> "undefined", v |-> "", pieces |-> <<>>]
PlainResult == [t |-> "json", v |-> ResultValue, pieces |-> <<>>]
DatedNote == [t |-> "object", v |-> "note with a Date", pieces |-> <<>>]
StringResult(pieces) == [t |-> "string", v |-> "", pieces |-> pieces]

\* what a capability call that resolves can resolve with
Results(a, name) ==
  CASE a = "Obsidian" /\ name = "write_note" -> {VoidResult}
    [] a = "Obsidian" /\ name # "write_note" -> {PlainResult, DatedNote}
    [] a = "IosSimulator" /\ name # "list_simulators" -> {VoidResult}
    [] OTHER -> {PlainResult}

\* the value JSON.stringify renders: a Date becomes its ISO string
ToJSON(res) == IF res.t = "object" THEN "note with a date string" ELSE res.v

\* `response.data` of a result
DataOf(res) == IF res.v = ResultValue THEN "result.data" ELSE "data"

\* JSON.parse of a text the handlers produce by JSON.stringify, and the text
\* itself for any other text
Deserialize(text) ==
  IF Len(text) = 2 /\ text[1] = "json:"
  THEN [t |-> "json", v |-> text[2], pieces |-> <<>>]
  ELSE StringResult(text)

\* what a handler's synchronous part yields: either it suspends on a
\* capability call or it has produced its response
Suspend(cap) == [suspended |-> TRUE, cap |-> cap, resp |-> BareResult("none")]
Respond(resp) == [suspended |-> FALSE, cap |-> "none", resp |-> resp]

(* ---- Telegram: CallTool handler ---- *)
\* a switch without the get_updates case
TelegramCasesShort == {"send_message", "get_chat", "send_photo"}

TelegramCases == {"send_message", "get_chat", "send_photo", "get_updates"}

\* the catch block: every error, McpError included, is rethrown as InternalError
TelegramCatch(message) == McpError("InternalError", <<"Telegram API error: ">> \o message)

\* up to the awaited bot call
TelegramCallTool(name, args) ==
  IF name \in TelegramCases
  THEN IF ~args.present
       THEN Respond(TelegramCatch(DestructureMessage))
       ELSE Suspend(name)
  ELSE Respond(TelegramCatch(McpMessage("MethodNotFound", UnknownToolMessage(name))))

\* a handler that confirms with a fixed message instead of the bot's reply
TelegramReturnFixed(name, args, out, res) ==
  IF out = "ok"
  THEN Envelope(<<"Done">>, "absent")
  ELSE TelegramCatch(CauseMessage)

\* after the awaited bot call
TelegramReturn(name, args, out, res) ==
  IF out = "ok"
  THEN Envelope(JsonText(ToJSON(res)), "absent")
  ELSE TelegramCatch(CauseMessage)

(* ---- Supabase: CallTool handler ---- *)
SupabaseCases ==
  {"query_data", "insert_data", "update_data", "delete_data", "rpc", "execute_sql"}

\* the catch block: every error becomes an isError envelope
SupabaseCatch(message) == Envelope(<<"Error: ">> \o message, "true")

\* up to the awaited query; Object.entries(filters) throws on undefined
SupabaseCallTool(name, args) ==
  IF name \in SupabaseCases
  THEN IF ~args.present
       THEN Respond(SupabaseCatch(DestructureMessage))
       ELSE IF name \in {"update_data", "delete_data"} /\ ~Has(args, "filters")
            THEN Respond(SupabaseCatch(<<"Cannot convert undefined or null to object">>))
            ELSE Suspend(name)
  ELSE Respond(SupabaseCatch(McpMessage("MethodNotFound", UnknownToolMessage(name))))

\* after the awaited query: `if (error) throw error`
SupabaseReturn(name, args, out, res) ==
  IF out = "ok"
  THEN Envelope(JsonText(ToJSON(res)), "absent")
  ELSE SupabaseCatch(CauseMessage)

(* ---- Obsidian: CallTool handler ---- *)
ObsidianCases == {"read_note", "write_note", "search_notes"}

\* the catch block for an error that is not an McpError
ObsidianCatch(message) == McpError("InternalError", message)

\* up to the awaited file-system call; path.join throws on a non-string path
ObsidianCallTool(name, args) ==
  IF name \in ObsidianCases
  THEN IF ~args.present
       THEN Respond(ObsidianCatch(DestructureMessage))
       ELSE IF name \in {"read_note", "write_note"} /\ ~IsString(args, "path")
            THEN Respond(ObsidianCatch(<<"The \"path\" argument must be of type string">>))
            ELSE Suspend(name)
  ELSE Respond(McpError("MethodNotFound", UnknownToolMessage(name)))

\* after the awaited file-system call
ObsidianReturn(name, args, out, res) ==
  IF out = "ok"
  THEN IF name = "write_note"
       THEN Envelope(<<"Note written successfully to ", args.fields["path"].s>>, "absent")
       ELSE Envelope(JsonText(ToJSON(res)), "absent")
  ELSE ObsidianCatch(CauseMessage)

(* ---- Bluesky: CallTool handler ---- *)
BlueskyCases ==
  {"bluesky_get_profile", "bluesky_get_posts", "bluesky_search_posts", "bluesky_get_follows",
   "bluesky_get_followers", "bluesky_get_liked_posts", "bluesky_get_personal_feed",
   "bluesky_search_profiles"}

\* the catch block: the error text in a content block, and no isError key
BlueskyCatch(message) == Envelope(<<"json:error:">> \o message, "absent")

\* a handler that looks the tool up before it looks at the arguments
BlueskyCallToolNameFirst(name, args) ==
  IF name \in BlueskyCases
  THEN IF name \in {"bluesky_search_posts", "bluesky_search_profiles"}
            /\ ~IsTruthy(args, "query")
       THEN Respond(BlueskyCatch(<<"Missing required argument: query">>))
       ELSE Suspend(name)
  ELSE Respond(BlueskyCatch(UnknownToolMessage(name)))

\* up to the awaited agent call
BlueskyCallTool(name, args) ==
  IF ~args.present
  THEN Respond(BlueskyCatch(<<"No arguments provided">>))
  ELSE IF name \in BlueskyCases
       THEN IF name \in {"bluesky_search_posts", "bluesky_search_profiles"}
                 /\ ~IsTruthy(args, "query")
            THEN Respond(BlueskyCatch(<<"Missing required argument: query">>))
            ELSE Suspend(name)
       ELSE Respond(BlueskyCatch(UnknownToolMessage(name)))

\* after the awaited agent call: JSON.stringify(response), and
\* JSON.stringify(response.data) for bluesky_search_profiles
BlueskyReturn(name, args, out, res) ==
  IF out = "ok"
  THEN IF name = "bluesky_search_profiles"
       THEN Envelope(JsonText(DataOf(res)), "absent")
       ELSE Envelope(JsonText(ToJSON(res)), "absent")
  ELSE BlueskyCatch(CauseMessage)

(* ---- RSS: CallTool handler, handleFetchFeed, handleGetFeedItems ---- *)
RssCases == {"fetch_feed", "get_feed_items"}

\* the switch: typeof args?.url !== 'string' is InvalidParams
RssCallTool(name, args) ==
  IF name \in RssCases
  THEN IF ~IsString(args, "url")
       THEN Respond(McpError("InvalidParams", <<"URL is required and must be a string">>))
       ELSE Suspend(name)
  ELSE Respond(McpError("MethodNotFound", UnknownToolMessage(name)))

\* what the RSS handlers render of a parsed feed: a few of its fields, and of
\* at most `limit` of its items
FeedExcerpt == "some fields of the first items of the feed"

\* after parser.parseURL
handleFetchFeed(out) ==
  IF out = "ok"
  THEN Envelope(JsonText(FeedExcerpt), "absent")
  ELSE Envelope(<<"Failed to fetch feed: ">> \o CauseMessage, "true")

\* after parser.parseURL
handleGetFeedItems(out) ==
  IF out = "ok"
  THEN Envelope(JsonText(FeedExcerpt), "absent")
  ELSE Envelope(<<"Failed to fetch feed items: ">> \o CauseMessage, "true")

RssReturn(name, args, out, res) ==
  IF name = "fetch_feed" THEN handleFetchFeed(out) ELSE handleGetFeedItems(out)

(* ---- iOS simulator: CallTool handler ---- *)
IosCases ==
  {"list_simulators", "boot_simulator", "shutdown_simulator", "install_app", "launch_app"}

\* XxxSchema.parse: every field of the z.object must be a string
ZodParseOk(name, args) == \A f \in Required(name) : IsString(args, f)

\* up to the awaited simulatorService call; every error is rethrown
IosCallTool(name, args) ==
  IF ~args.present
  THEN Respond(PlainError(<<"Arguments are required">>))
  ELSE IF name \in IosCases
       THEN IF name # "list_simulators" /\ ~ZodParseOk(name, args)
            THEN Respond(PlainError(<<"Invalid arguments: ", "ZodError">>))
            ELSE Suspend(name)
       ELSE Respond(PlainError(UnknownToolMessage(name)))

\* after the awaited simulatorService call
IosReturn(name, args, out, res) ==
  IF out = "ok"
  THEN BareResult("toolResult")
  ELSE PlainError(CauseMessage)

(* ---- demo template: the CallTool handler registered last ---- *)
TemplateCases == {"calculate_sum"}

\* ErrorCode.TOOL_NOT_FOUND is not a member of ErrorCode: the code is undefined
TemplateCallTool(name, args) ==
  IF name \in TemplateCases
  THEN IF ~args.present
       THEN Respond(PlainError(DestructureMessage))
       ELSE Respond(BareResult("toolResult"))
  ELSE Respond(McpError("undefined", <<"Tool not found">>))

\* the template's first CallTool handler: `return {}` for 'name_of_tool'
TemplateFirstCallTool(name, args) ==
  IF name = "name_of_tool"
  THEN Respond(BareResult("none"))
  ELSE Respond(McpError("undefined", <<"Tool not found">>))

(* ---- Shortcuts: updateShortcutsList, handleToolCall, ReadResource ---- *)
\* the segments of `stdout.split("\n")`
RawLines == {"", " b "}

\* line.trim()
Trim(line) == IF line = " b " THEN "b" ELSE line

\* what execSync("shortcuts list") yields: status "reject" is a throw
\* (non-zero exit), which hands no stdout to the caller
Stdouts == UNION {[1..n -> RawLines] : n \in 1..MaxLines}
ListOutcomes ==
  {[status |-> "ok", stdout |-> o] : o \in Stdouts} \cup {[status |-> "reject", stdout |-> <<"">>]}

\* what execSync(`shortcuts run ...`) yields: empty or non-empty output, or a throw
RunOutcomes ==
  {[status |-> "ok", stdout |-> <<"">>], [status |-> "ok", stdout |-> <<"out">>],
   [status |-> "reject", stdout |-> <<"">>]}

\* the outcomes of the command a tool runs; a name outside the switch runs none
ExecOutcomes(name) ==
  CASE name = "list_shortcuts" -> ListOutcomes
    [] name = "run_shortcut" -> RunOutcomes
    [] OTHER -> {[status |-> "ok", stdout |-> <<"">>]}

\* the command line of run_shortcut: `-i` only for a truthy input
RunCommand(args) == IF IsTruthy(args, "input") THEN "shortcuts run -i" ELSE "shortcuts run"

RECURSIVE TrimAndFilter(_)
\* .map((line) => line.trim()).filter((line) => line.length > 0)
TrimAndFilter(lines) ==
  IF lines = <<>>
  THEN <<>>
  ELSE IF Trim(Head(lines)) # ""
       THEN <<Trim(Head(lines))>> \o TrimAndFilter(Tail(lines))
       ELSE TrimAndFilter(Tail(lines))

RECURSIVE Join(_)
\* list.join("\n"), as the sequence of the pieces of the resulting string
Join(list) ==
  IF list = <<>>
  THEN <<>>
  ELSE IF Len(list) = 1
       THEN <<Head(list)>>
       ELSE <<Head(list), "\n">> \o Join(Tail(list))

\* the string is "" (falsy)
EmptyString(pieces) == \A i \in DOMAIN pieces : pieces[i] = ""

\* a refresh that keeps the previous list when the command fails
updateShortcutsListKeep(out) ==
  IF out.status = "ok" THEN TrimAndFilter(out.stdout) ELSE availableShortcuts

\* a refresh that adds the new names to the stored list
updateShortcutsListAppend(out) ==
  IF out.status = "ok" THEN availableShortcuts \o TrimAndFilter(out.stdout) ELSE <<>>

\* the new value of availableShortcuts
updateShortcutsList(out) ==
  IF out.status = "ok" THEN TrimAndFilter(out.stdout) ELSE <<>>

\* a handler whose run_shortcut catch block also clears the list
handleToolCallClearing(name, args, out) ==
  CASE name = "list_shortcuts" ->
         [resp |-> Envelope(<<"Available shortcuts:\n">> \o Join(updateShortcutsList(out)), "false"),
          shortcuts |-> updateShortcutsList(out), caps |-> <<"shortcuts list">>,
          refreshed |-> TRUE]
    [] name = "run_shortcut" ->
         [resp |-> IF out.status = "ok"
                   THEN Envelope(IF EmptyString(Join(out.stdout))
                                 THEN <<"Shortcut executed successfully">>
                                 ELSE Join(out.stdout), "false")
                   ELSE Envelope(<<"Failed to run shortcut: ">> \o CauseMessage, "true"),
          shortcuts |-> IF out.status = "ok" THEN availableShortcuts ELSE <<>>,
          caps |-> <<RunCommand(args)>>, refreshed |-> FALSE]
    [] OTHER ->
         [resp |-> Envelope(UnknownToolMessage(name), "true"),
          shortcuts |-> availableShortcuts, caps |-> <<>>, refreshed |-> FALSE]

\* a handler that answers list_shortcuts from the list stored before its refresh
handleToolCallStale(name, args, out) ==
  CASE name = "list_shortcuts" ->
         [resp |-> Envelope(<<"Available shortcuts:\n">> \o Join(availableShortcuts), "false"),
          shortcuts |-> updateShortcutsList(out), caps |-> <<"shortcuts list">>,
          refreshed |-> TRUE]
    [] name = "run_shortcut" ->
         [resp |-> IF out.status = "ok"
                   THEN Envelope(IF EmptyString(Join(out.stdout))
                                 THEN <<"Shortcut executed successfully">>
                                 ELSE Join(out.stdout), "false")
                   ELSE Envelope(<<"Failed to run shortcut: ">> \o CauseMessage, "true"),
          shortcuts |-> availableShortcuts,
          caps |-> <<RunCommand(args)>>, refreshed |-> FALSE]
    [] OTHER ->
         [resp |-> Envelope(UnknownToolMessage(name), "true"),
          shortcuts |-> availableShortcuts, caps |-> <<>>, refreshed |-> FALSE]

\* handleToolCall(name, args): the response, the list it leaves and the
\* commands it ran; execSync is synchronous, so the handler never suspends
handleToolCall(name, args, out) ==
  CASE name = "list_shortcuts" ->
         [resp |-> Envelope(<<"Available shortcuts:\n">> \o Join(updateShortcutsList(out)), "false"),
          shortcuts |-> updateShortcutsList(out), caps |-> <<"shortcuts list">>,
          refreshed |-> TRUE]
    [] name = "run_shortcut" ->
         [resp |-> IF out.status = "ok"
                   THEN Envelope(IF EmptyString(Join(out.stdout))
                                 THEN <<"Shortcut executed successfully">>
                                 ELSE Join(out.stdout), "false")
                   ELSE Envelope(<<"Failed to run shortcut: ">> \o CauseMessage, "true"),
          shortcuts |-> availableShortcuts,
          caps |-> <<RunCommand(args)>>, refreshed |-> FALSE]
    [] OTHER ->
         [resp |-> Envelope(UnknownToolMessage(name), "true"),
          shortcuts |-> availableShortcuts, caps |-> <<>>, refreshed |-> FALSE]

(* ---- the arguments a handler hands to its capability ---- *)
\* numbers the schemas and handlers name
VZero == [type |-> "number", s |-> "0"]
VTen == [type |-> "number", s |-> "10"]
VTwentyFive == [type |-> "number", s |-> "25"]
VFifty == [type |-> "number", s |-> "50"]

\* no capability invoked, or one invoked without arguments
NoCapArgs == [f \in {} |-> VStr]

\* the arguments as the client sent them; an absent one stays `undefined`
PassThrough(args) == IF args.present THEN args.fields ELSE NoCapArgs

\* `const { limit = 10, timeout = 0 } = request.params.arguments`
TelegramGetUpdatesArgs(args) ==
  [f \in {"limit", "timeout"} |->
     IF Has(args, f) THEN args.fields[f] ELSE IF f = "limit" THEN VTen ELSE VZero]

\* handleFetchFeed / handleGetFeedItems: `typeof args?.limit === 'number' ?
\* args.limit : undefined` in the switch, then `args.limit || 10`
RssLimit(args) ==
  IF Has(args, "limit") /\ args.fields["limit"].type = "number"
       /\ args.fields["limit"] # VZero
  THEN args.fields["limit"]
  ELSE VTen

\* the url handed to parser.parseURL and the limit applied to the parsed feed
RssArgs(args) == [f \in {"url", "limit"} |-> IF f = "url" THEN args.fields["url"] ELSE RssLimit(args)]

\* Bluesky hands `limit as number | undefined` to the agent as it came
CapArgs(a, name, args) ==
  CASE a = "Telegram" /\ name = "get_updates" -> TelegramGetUpdatesArgs(args)
    [] a = "RSS" -> RssArgs(args)
    [] OTHER -> PassThrough(args)

\* the default a tool's schema or description declares for an optional argument
DeclaredDefaults(name) ==
  CASE name = "get_updates" -> [f \in {"limit", "timeout"} |-> IF f = "limit" THEN VTen ELSE VZero]
    [] name \in {"bluesky_get_posts", "bluesky_get_follows", "bluesky_get_followers",
                 "bluesky_get_liked_posts", "bluesky_get_personal_feed"} ->
         [f \in {"limit"} |-> VFifty]
    [] name \in {"bluesky_search_posts", "bluesky_search_profiles"} ->
         [f \in {"limit"} |-> VTwentyFive]
    [] name \in {"fetch_feed", "get_feed_items"} -> [f \in {"limit"} |-> VTen]
    [] OTHER -> NoCapArgs

(* ---- dispatch of the adapters whose handlers await their capability ---- *)
Cases(a) ==
  CASE a = "Telegram" -> TelegramCases
    [] a = "Supabase" -> SupabaseCases
    [] a = "Obsidian" -> ObsidianCases
    [] a = "Bluesky" -> BlueskyCases
    [] a = "RSS" -> RssCases
    [] a = "IosSimulator" -> IosCases
    [] a = "Shortcuts" -> {"run_shortcut", "list_shortcuts"}
    [] OTHER -> TemplateCases

CallToolBegin(a, reg, name, args) ==
  CASE a = "Telegram" -> TelegramCallTool(name, args)
    [] a = "Supabase" -> SupabaseCallTool(name, args)
    [] a = "Obsidian" -> ObsidianCallTool(name, args)
    [] a = "Bluesky" -> BlueskyCallTool(name, args)
    [] a = "RSS" -> RssCallTool(name, args)
    [] a = "IosSimulator" -> IosCallTool(name, args)
    [] a = "Template" /\ reg = "first" -> TemplateFirstCallTool(name, args)
    [] OTHER -> TemplateCallTool(name, args)

CallToolReturn(a, name, args, out, res) ==
  CASE a = "Telegram" -> TelegramReturn(name, args, out, res)
    [] a = "Supabase" -> SupabaseReturn(name, args, out, res)
    [] a = "Obsidian" -> ObsidianReturn(name, args, out, res)
    [] a = "Bluesky" -> BlueskyReturn(name, args, out, res)
    [] a = "RSS" -> RssReturn(name, args, out, res)
    [] OTHER -> IosReturn(name, args, out, res)

(* ---- the inputs a client can send ---- *)
UnknownTool == "unknown_tool"
\* the names a client may send: the dispatched ones, the advertised ones, the
\* one the template's first handler knows, and one nobody knows
ToolNames(a) ==
  Cases(a) \cup CatalogNames(a) \cup {UnknownTool}
    \cup (IF a = "Template" THEN {"name_of_tool"} ELSE {})

\* the fields whose type or truthiness a handler inspects take every kind of
\* value; the others are only passed through and take one
InspectedFields == {"url", "query", "path", "deviceId", "appPath", "bundleId", "input"}
\* the fields a schema types as number
NumberFields == {"limit", "timeout"}
FieldValues(f) ==
  IF f \in InspectedFields THEN ArgValues ELSE IF f \in NumberFields THEN {VNum} ELSE {VStr}

ArgsChoices(name) ==
  {NoArgs} \cup
  {[present |-> TRUE, fields |-> f] :
     f \in UNION {{g \in [S -> ArgValues] : \A k \in S : g[k] \in FieldValues(k)} :
                    S \in SUBSET Props(name)}}

ResourceUris == {"shortcuts://list", "shortcuts://other"}

(* ---- process lifecycle ---- *)
\* a server that creates its client when it is first needed
ConstructedHandleLater(a) == "none"

\* the client a server creates before it registers its handlers: this.bot,
\* this.supabase, this.parser, the Bluesky agent; "none" for the others
ConstructedHandle(a) ==
  CASE a = "Telegram" -> "bot"
    [] a = "Supabase" -> "supabase"
    [] a = "RSS" -> "parser"
    [] a = "Bluesky" -> "agent"
    [] OTHER -> "none"

\* the number of assignments after one that assigns h
Assigned(n, h) == IF h = "none" THEN n ELSE n + 1

\* the servers whose constructor installs process.on('SIGINT', ...)
HasSigintHandler(a) == a \in {"Telegram", "Supabase", "Obsidian", "RSS"}

LoginOutcomes == {"success", "unsuccessful", "throw"}

\* a check that only notices a thrown login
LoginFailsOnThrowOnly(lo) == lo = "throw"

\* `!loginResponse.success` exits, and a rejected login reaches main().catch
LoginFails(lo) == lo # "success"

\* what tells one kind of response from another: everything but its texts
ResponseShape(r) ==
  [kind |-> r.kind, code |-> r.code, hasContent |-> r.hasContent, isError |-> r.isError,
   extra |-> r.extra]

\* a handled Call-Tool request is "malformed" (a name outside the catalog or a
\* required argument missing), "capfail" (well formed, its capability call
\* failed) or "other"; a failed refresh of list_shortcuts is no failure of the
\* invocation (the empty list is its result)
RequestClass(a, r) ==
  IF r.kind # "call" \/ r.pc # "done"
  THEN "other"
  ELSE IF r.name \notin CatalogNames(a) \/ (\E f \in Required(r.name) : ~Has(r.args, f))
       THEN "malformed"
       ELSE IF r.outcome \in {"reject", "errorField"} /\ r.name # "list_shortcuts"
            THEN "capfail"
            ELSE "other"

NoOutcome == [class |-> "none", shape |-> ResponseShape(BareResult("none"))]

\* the request being replaced by a new one is remembered when it was
\* malformed or had its capability fail
Remember(r, resps, prev) ==
  IF RequestClass(adapter, r) \in {"malformed", "capfail"}
  THEN [class |-> RequestClass(adapter, r), shape |-> ResponseShape(resps[1])]
  ELSE prev

(* ---- RSS: the items handleFetchFeed and handleGetFeedItems return ---- *)
MaxItems == 2
MaxPlain == 11

\* the `limit` argument: absent, a value of another type, or a number, held as
\* its count of halves so that 1.5 is a value
LimitChoices ==
  {[kind |-> "absent", halves |-> 0], [kind |-> "string", halves |-> 0]}
    \cup {[kind |-> "number", halves |-> h] : h \in {-2, 0, 1, 2, 3, 4}}

\* a date text is held as a number: 0 when there is none, -1 when Date cannot
\* parse it, else its day.  new Date(a || '') > new Date(b): false when either
\* is an Invalid Date
Later(a, b) == a > 0 /\ b > 0 /\ a > b

\* the `filter` argument: absent, or an object with any of after, before,
\* search; a search term is held as "q" and an item's text as "hit" when its
\* title, content or snippet includes the term
FilterChoices ==
  {[present |-> FALSE, after |-> 0, before |-> 0, search |-> "absent"]} \cup
  {[present |-> TRUE, after |-> a, before |-> b, search |-> s] :
     a \in {0, -1, 2}, b \in {0, -1, 2}, s \in {"absent", "q"}}

\* feed.items of a parsed feed: items of every kind in any order, and feeds
\* longer than the default limit
Feeds ==
  LET ItemKinds ==
        {[pub |-> 1, text |-> "hit"], [pub |-> 2, text |-> "hit"], [pub |-> 3, text |-> "hit"],
         [pub |-> 3, text |-> "miss"], [pub |-> 0, text |-> "hit"], [pub |-> -1, text |-> "hit"]}
      Numbered(f) == [i \in DOMAIN f |-> [id |-> i, pub |-> f[i].pub, text |-> f[i].text]]
  IN {Numbered(f) : f \in UNION {[1..n -> ItemKinds] : n \in 0..MaxItems}}
       \cup {Numbered([i \in 1..n |-> [pub |-> 3, text |-> "hit"]]) : n \in MaxItems+1..MaxPlain}

\* items.slice(0, end): `end` is made an integer by dropping its fraction, and
\* a negative one counts from the end of the array
Slice(items, h) ==
  LET rel == IF h >= 0 THEN h \div 2 ELSE -((-h) \div 2)
      final == IF rel < 0
               THEN (IF Len(items) + rel > 0 THEN Len(items) + rel ELSE 0)
               ELSE (IF rel < Len(items) THEN rel ELSE Len(items))
  IN SubSeq(items, 1, final)

\* `typeof args?.limit === 'number' ? args.limit : undefined`, then
\* `args.limit || 10`: 0 is falsy
LimitOrDefault(limit) ==
  IF limit.kind = "number" /\ limit.halves # 0 THEN limit.halves ELSE 2 * 10

\* the items handleFetchFeed renders
fetchFeedItems(feed, limit) == Slice(feed, LimitOrDefault(limit))

\* the items handleGetFeedItems renders: the three filters, then the limit
getFeedItems(feed, limit, filter) ==
  LET IsAfter(it) == Later(it.pub, filter.after)
      IsBefore(it) == Later(filter.before, it.pub)
      Includes(it) == it.text = "hit"
      a == IF filter.present /\ filter.after # 0 THEN SelectSeq(feed, IsAfter) ELSE feed
      b == IF filter.present /\ filter.before # 0 THEN SelectSeq(a, IsBefore) ELSE a
      c == IF filter.present /\ filter.search # "absent" THEN SelectSeq(b, Includes) ELSE b
  IN Slice(c, LimitOrDefault(limit))

NoRssCall ==
  [pc |-> "idle", tool |-> "none", feed |-> <<>>, limit |-> [kind |-> "absent", halves |-> 0],
   filter |-> [present |-> FALSE, after |-> 0, before |-> 0, search |-> "absent"],
   items |-> <<>>]

(* ---- Supabase: the query a query_data / update_data / delete_data call builds ---- *)
MaxFilters == 2

\* the `filters` argument: absent, or an object, held as the sequence of its
\* keys in the order Object.entries lists them
FiltersChoices ==
  {[present |-> FALSE, keys |-> <<>>]} \cup
  {[present |-> TRUE, keys |-> k] :
     k \in {q \in UNION {[1..n -> {"a", "b", "c"}] : n \in 0..MaxFilters} :
              \A i, j \in DOMAIN q : i # j => q[i] # q[j]}}

\* the `limit` argument: absent or a number
NoRowLimit == [given |-> FALSE, n |-> 0]
RowLimitChoices == {NoRowLimit} \cup {[given |-> TRUE, n |-> n] : n \in 0..2}

NoQuery ==
  [pc |-> "idle", tool |-> "none", filters |-> [present |-> FALSE, keys |-> <<>>],
   limit |-> NoRowLimit, todo |-> <<>>, eqs |-> <<>>, limited |-> NoRowLimit, sent |-> FALSE,
   outcome |-> "none"]

(* ---- Obsidian: readNote and writeNote on the files of the vault ---- *)
\* a path is the sequence of its segments; VAULT_PATH_STRING is /vault
VaultRoot == <<"vault">>

\* the `path` arguments a client sends: n.md, ../n.md, d/../n.md, /n.md
NotePaths ==
  {[abs |-> FALSE, segs |-> <<"n.md">>], [abs |-> FALSE, segs |-> <<"..", "n.md">>],
   [abs |-> FALSE, segs |-> <<"d", "..", "n.md">>], [abs |-> TRUE, segs |-> <<"n.md">>]}

RECURSIVE Normalize(_, _)
\* path.normalize of an absolute path: `..` drops the segment before it and
\* stays at the root
Normalize(done, todo) ==
  IF todo = <<>>
  THEN done
  ELSE IF Head(todo) = ".."
       THEN Normalize(IF done = <<>> THEN <<>> ELSE SubSeq(done, 1, Len(done) - 1), Tail(todo))
       ELSE Normalize(Append(done, Head(todo)), Tail(todo))

\* path.join(root, p): the segments of both, normalized; a leading slash of p
\* is a separator like any other
PathJoin(root, p) == Normalize(<<>>, root \o p.segs)

\* a text: the front-matter block it begins with ("none", or the data the
\* block holds) and whether its body ends with a newline; NoFile stands for a
\* file that does not exist
NoFile == [matter |-> "absent", nl |-> FALSE]

\* matter(text): the data of the block and the body after it
Matter(text) ==
  [data |-> IF text.matter = "none" THEN "{}" ELSE text.matter,
   content |-> [matter |-> "none", nl |-> text.nl]]

\* writeNote: `if (frontmatter) fileContent = matter.stringify(content,
\* frontmatter)`.  stringify parses the content first, puts the frontmatter
\* over the data of its block, writes the block unless the data is empty, and
\* ends the body with a newline
FileContent(content, frontmatter) ==
  LET d == IF frontmatter = "{}" THEN Matter(content).data ELSE frontmatter
  IN IF frontmatter = "absent"
     THEN content
     ELSE [matter |-> IF d = "{}" THEN "none" ELSE d, nl |-> TRUE]

\* readNote: the Note made of the file's text; path.basename(notePath, '.md')
\* of a path that ends in n.md is n
readNote(p, text) ==
  [title |-> IF p.segs[Len(p.segs)] = "n.md" THEN "n" ELSE p.segs[Len(p.segs)],
   content |-> Matter(text).content, path |-> p, frontmatter |-> Matter(text).data]

NoNote == readNote([abs |-> FALSE, segs |-> <<"n.md">>], NoFile)

\* no file exists yet, none was written, nothing was read; `written` holds the
\* arguments of the write_note that last wrote each file
NoNotes ==
  LET FullPaths == {PathJoin(VaultRoot, p) : p \in NotePaths}
  IN [files |-> [f \in FullPaths |-> NoFile],
      written |-> [f \in FullPaths |->
                     [path |-> [abs |-> FALSE, segs |-> <<>>], content |-> NoFile,
                      frontmatter |-> "absent"]],
      op |-> [kind |-> "none", path |-> [abs |-> FALSE, segs |-> <<>>], accessed |-> <<>>,
              outcome |-> "none", result |-> NoNote]]

(* ---- Obsidian: the note files and a search in flight ---- *)
\* the .md files of the vault, in the order fs.readdir lists them
Notes == <<"a.md", "b.md">>

\* a note's content either includes the query of the search or does not
Contents == {"hit", "miss"}

NoSearch == [pc |-> "idle", todo |-> <<>>, found |-> <<>>]

NotListed == [seen |-> FALSE, tools |-> <<>>, calledSince |-> FALSE]

\* a Call-Tool request is handled: it lies after the first listing, if any
Called(fc) == [fc EXCEPT !.calledSince = fc.seen]
NoRequest == [kind |-> "none", name |-> "", args |-> NoArgs, pc |-> "idle", outcome |-> "none"]
NoRefresh == [by |-> "none", status |-> "none"]

Init ==
  /\ adapter \in Adapters
  /\ env \in [RequiredConfig(adapter) -> EnvValues]
  /\ phase = "start"
  /\ connected = FALSE
  /\ channelClosed = FALSE
  /\ exitStatus = "none"
  /\ signalled = FALSE
  /\ loginOutcome = "none"
  /\ served = 0
  /\ req = NoRequest
  /\ capLog = <<>>
  /\ responses = <<>>
  /\ availableShortcuts = <<>>
  /\ lastRefresh = NoRefresh
  /\ prevFailed = FALSE
  /\ capArgs = NoCapArgs
  /\ prevOutcome = NoOutcome
  /\ capResult = NoResult
  /\ registration = "none"
  /\ firstCatalog = NotListed
  /\ vault = [n \in Range(Notes) |-> "absent"]
  /\ search = NoSearch
  /\ pendingWrites = {}
  /\ writesStarted = 0
  /\ snaps = {}
  /\ lastGood = <<>>
  /\ handle = "none"
  /\ handleWrites = 0
  /\ usedHandle = "none"
  /\ rss = NoRssCall
  /\ notes = NoNotes
  /\ query = NoQuery

\* module top level / main() with a required variable missing: the uncaught
\* throw, or process.exit(1), ends the process before anything is connected
StartupFail ==
  /\ phase = "start"
  /\ MissingConfig(adapter, env)
  /\ phase' = "exited"
  /\ exitStatus' = "1"
  /\ UNCHANGED <<adapter, env, connected, channelClosed, signalled, loginOutcome, served,
                 req, capLog, responses, availableShortcuts, lastRefresh, prevFailed, capArgs,
                 prevOutcome, capResult, registration, firstCatalog, concVars, pureVars, lastGood, handle,
                 handleWrites, usedHandle>>

\* the constructor: new Server, the client handle, handler registration, the
\* SIGINT handler.  The template has no class: it registers its first
\* handlers and calls server.connect(transport), which starts the transport
Startup ==
  /\ phase = "start"
  /\ ~MissingConfig(adapter, env)
  /\ adapter \notin {"Bluesky", "Shortcuts"}
  /\ IF adapter = "Template"
     THEN /\ phase' = "connecting"
          /\ connected' = TRUE
          /\ registration' = "first"
     ELSE /\ phase' = "constructed"
          /\ connected' = connected
          /\ registration' = "final"
  /\ handle' = ConstructedHandle(adapter)
  /\ handleWrites' = Assigned(handleWrites, ConstructedHandle(adapter))
  /\ UNCHANGED <<adapter, env, channelClosed, exitStatus, signalled, loginOutcome, served,
                 req, capLog, responses, availableShortcuts, lastRefresh, prevFailed, capArgs,
                 prevOutcome, capResult, firstCatalog, concVars, pureVars, lastGood, usedHandle>>

\* Shortcuts runServer: connect, then the initial updateShortcutsList()
StartupShortcuts ==
  /\ phase = "start"
  /\ adapter = "Shortcuts"
  /\ \E out \in ListOutcomes :
       /\ availableShortcuts' = updateShortcutsList(out)
       /\ lastRefresh' = [by |-> "startup", status |-> out.status]
       /\ lastGood' = IF out.status = "ok" THEN TrimAndFilter(out.stdout) ELSE lastGood
  /\ phase' = "serving"
  /\ connected' = TRUE
  /\ registration' = "final"
  /\ UNCHANGED <<adapter, env, channelClosed, exitStatus, signalled, loginOutcome, served,
                 req, capLog, responses, prevFailed, capArgs, prevOutcome, capResult, firstCatalog,
                 concVars, pureVars, handle, handleWrites, usedHandle>>

\* Bluesky main() up to `await session.login(...)`
StartupBluesky ==
  /\ phase = "start"
  /\ adapter = "Bluesky"
  /\ ~MissingConfig(adapter, env)
  /\ phase' = "login"
  /\ UNCHANGED <<adapter, env, connected, channelClosed, exitStatus, signalled, loginOutcome,
                 served, req, capLog, responses, availableShortcuts, lastRefresh, prevFailed,
                 capArgs, prevOutcome, capResult, registration, firstCatalog, concVars, pureVars, lastGood,
                 handle, handleWrites, usedHandle>>

\* Bluesky main() after the login: exit 1, or create the agent and register
\* the handlers
LoginReturn ==
  /\ phase = "login"
  /\ \E lo \in LoginOutcomes :
       /\ loginOutcome' = lo
       /\ IF LoginFails(lo)
          THEN /\ phase' = "exited"
               /\ exitStatus' = "1"
               /\ connected' = connected
               /\ registration' = registration
               /\ UNCHANGED <<handle, handleWrites>>
          ELSE /\ phase' = "constructed"
               /\ exitStatus' = exitStatus
               /\ connected' = connected
               /\ registration' = "final"
               /\ handle' = ConstructedHandle(adapter)
               /\ handleWrites' = Assigned(handleWrites, ConstructedHandle(adapter))
  /\ UNCHANGED <<adapter, env, channelClosed, signalled, served, req, capLog, responses,
                 availableShortcuts, lastRefresh, prevFailed, capArgs, prevOutcome, capResult,
                 firstCatalog, concVars, pureVars, lastGood, usedHandle>>

\* run() / runServer() / the end of main(): server.connect(transport)
Connect ==
  /\ phase = "constructed"
  /\ phase' = "serving"
  /\ connected' = TRUE
  /\ UNCHANGED <<adapter, env, channelClosed, exitStatus, signalled, loginOutcome, served,
                 req, capLog, responses, availableShortcuts, lastRefresh, prevFailed, capArgs,
                 prevOutcome, capResult, registration, firstCatalog, concVars, pureVars, lastGood, handle,
                 handleWrites, usedHandle>>

\* the template after `await server.connect(transport)`: its second pair of
\* setRequestHandler calls replaces the first.  The continuation of the await
\* is a microtask, a message on stdin an I/O event, so no request is
\* dispatched before this step
TemplateResume ==
  /\ phase = "connecting"
  /\ phase' = "serving"
  /\ registration' = "final"
  /\ UNCHANGED <<adapter, env, connected, channelClosed, exitStatus, signalled, loginOutcome,
                 served, req, capLog, responses, availableShortcuts, lastRefresh, prevFailed,
                 capArgs, prevOutcome, capResult, firstCatalog, concVars, pureVars, lastGood, handle,
                 handleWrites, usedHandle>>

\* SIGINT while serving: the installed handler starts server.close(); without
\* a handler the default disposition ends the process with status 130
Sigint ==
  /\ phase = "serving"
  /\ ~signalled
  /\ signalled' = TRUE
  /\ IF HasSigintHandler(adapter)
     THEN /\ phase' = "closing"
          /\ exitStatus' = exitStatus
     ELSE /\ phase' = "exited"
          /\ exitStatus' = "130"
  /\ UNCHANGED <<adapter, env, connected, channelClosed, loginOutcome, served, req, capLog,
                 responses, availableShortcuts, lastRefresh, prevFailed, capArgs, prevOutcome,
                 capResult, registration, firstCatalog, concVars, pureVars, lastGood, handle, handleWrites,
                 usedHandle>>

\* the SIGINT handler after `await this.server.close()`: process.exit(0)
CloseReturn ==
  /\ phase = "closing"
  /\ channelClosed' = TRUE
  /\ connected' = FALSE
  /\ phase' = "exited"
  /\ exitStatus' = "0"
  /\ UNCHANGED <<adapter, env, signalled, loginOutcome, served, req, capLog, responses,
                 availableShortcuts, lastRefresh, prevFailed, capArgs, prevOutcome, capResult,
                 registration, firstCatalog, concVars, pureVars, lastGood, handle, handleWrites,
                 usedHandle>>

(* ---- request handlers ---- *)
\* the capability call of the request just handled failed
CapFailed(r) == r.kind = "call" /\ r.outcome \in {"reject", "errorField"}

\* a new request can be taken: serving, nothing suspended, budget left
CanAccept ==
  /\ phase = "serving"
  /\ req.pc # "awaiting"
  /\ served < MaxRequests

\* a List-Tools request can be taken; these requests are not counted
CanList ==
  /\ phase = "serving"
  /\ req.pc # "awaiting"

\* ListTools handler
ListTools ==
  /\ CanList
  /\ req' = [kind |-> "list", name |-> "", args |-> NoArgs, pc |-> "done", outcome |-> "none"]
  /\ responses' = <<Listing(LiveCatalog(adapter, registration))>>
  /\ firstCatalog' = IF firstCatalog.seen
                     THEN firstCatalog
                     ELSE [seen |-> TRUE, tools |-> LiveCatalog(adapter, registration),
                           calledSince |-> FALSE]
  /\ capLog' = <<>>
  /\ usedHandle' = "none"
  /\ capResult' = NoResult
  /\ capArgs' = NoCapArgs
  /\ prevFailed' = (prevFailed \/ CapFailed(req))
  /\ prevOutcome' = Remember(req, responses, prevOutcome)
  /\ UNCHANGED <<adapter, env, phase, connected, channelClosed, exitStatus, signalled,
                 loginOutcome, served, availableShortcuts, lastRefresh, registration, concVars, pureVars,
                 lastGood, handle, handleWrites>>

\* CallTool handler up to its first await (or to its end)
CallTool ==
  /\ CanAccept
  /\ adapter # "Shortcuts"
  /\ \E name \in ToolNames(adapter) : \E args \in ArgsChoices(name) :
       LET b == CallToolBegin(adapter, registration, name, args) IN
         /\ req' = [kind |-> "call", name |-> name, args |-> args,
                    pc |-> IF b.suspended THEN "awaiting" ELSE "done", outcome |-> "none"]
         /\ capLog' = IF b.suspended THEN <<b.cap>> ELSE <<>>
         /\ usedHandle' = IF b.suspended THEN handle ELSE "none"
         /\ capArgs' = IF b.suspended THEN CapArgs(adapter, name, args) ELSE NoCapArgs
         /\ responses' = IF b.suspended THEN <<>> ELSE <<b.resp>>
  /\ served' = served + 1
  /\ firstCatalog' = Called(firstCatalog)
  /\ capResult' = NoResult
  /\ prevFailed' = (prevFailed \/ CapFailed(req))
  /\ prevOutcome' = Remember(req, responses, prevOutcome)
  /\ UNCHANGED <<adapter, env, phase, connected, channelClosed, exitStatus, signalled,
                 loginOutcome, availableShortcuts, lastRefresh, registration, concVars, pureVars, lastGood,
                 handle, handleWrites>>

\* the awaited capability call settles and the handler runs to its end
CapabilityReturn ==
  /\ phase = "serving"
  /\ req.pc = "awaiting"
  /\ \E out \in Outcomes(adapter) :
     \E res \in (IF out = "ok" THEN Results(adapter, req.name) ELSE {NoResult}) :
       /\ req' = [req EXCEPT !.pc = "done", !.outcome = out]
       /\ capResult' = res
       /\ responses' =
            Append(responses, CallToolReturn(adapter, req.name, req.args, out, res))
  /\ UNCHANGED <<adapter, env, phase, connected, channelClosed, exitStatus, signalled,
                 loginOutcome, served, capLog, availableShortcuts, lastRefresh, prevFailed,
                 capArgs, prevOutcome, registration, firstCatalog, concVars, pureVars, lastGood, handle,
                 handleWrites, usedHandle>>

\* Shortcuts CallTool handler: handleToolCall(name, arguments ?? {})
ShortcutsCallTool ==
  /\ CanAccept
  /\ adapter = "Shortcuts"
  /\ \E name \in ToolNames(adapter) : \E args \in ArgsChoices(name) :
     \E out \in ExecOutcomes(name) :
       LET h == handleToolCall(name, args, out) IN
         /\ req' = [kind |-> "call", name |-> name, args |-> args, pc |-> "done",
                    outcome |-> IF h.caps = <<>> THEN "none" ELSE out.status]
         /\ capLog' = h.caps
         /\ usedHandle' = "none"
         /\ capResult' = IF h.caps # <<>> /\ out.status = "ok"
                         THEN StringResult(Join(out.stdout))
                         ELSE NoResult
         /\ capArgs' = IF h.caps = <<>> THEN NoCapArgs ELSE CapArgs(adapter, name, args)
         /\ responses' = <<h.resp>>
         /\ availableShortcuts' = h.shortcuts
         /\ lastGood' = IF h.refreshed /\ out.status = "ok"
                        THEN TrimAndFilter(out.stdout)
                        ELSE lastGood
         /\ lastRefresh' = IF h.refreshed
                           THEN [by |-> "list_shortcuts", status |-> out.status]
                           ELSE lastRefresh
  /\ served' = served + 1
  /\ firstCatalog' = Called(firstCatalog)
  /\ prevFailed' = (prevFailed \/ CapFailed(req))
  /\ prevOutcome' = Remember(req, responses, prevOutcome)
  /\ UNCHANGED <<adapter, env, phase, connected, channelClosed, exitStatus, signalled,
                 loginOutcome, registration, concVars, pureVars, handle, handleWrites>>

\* Shortcuts ListResources handler
ListResources ==
  /\ CanAccept
  /\ adapter = "Shortcuts"
  /\ req' = [kind |-> "listres", name |-> "", args |-> NoArgs, pc |-> "done", outcome |-> "none"]
  /\ responses' = <<ResourceListing>>
  /\ capLog' = <<>>
  /\ usedHandle' = "none"
  /\ capResult' = NoResult
  /\ capArgs' = NoCapArgs
  /\ served' = served + 1
  /\ prevFailed' = (prevFailed \/ CapFailed(req))
  /\ prevOutcome' = Remember(req, responses, prevOutcome)
  /\ UNCHANGED <<adapter, env, phase, connected, channelClosed, exitStatus, signalled,
                 loginOutcome, availableShortcuts, lastRefresh, registration, firstCatalog,
                 concVars, pureVars, lastGood, handle, handleWrites>>

\* Shortcuts ReadResource handler
ReadResource ==
  /\ CanAccept
  /\ adapter = "Shortcuts"
  /\ \E uri \in ResourceUris :
       IF uri = "shortcuts://list"
       THEN \E out \in ListOutcomes :
              /\ availableShortcuts' = updateShortcutsList(out)
              /\ lastRefresh' = [by |-> "resource", status |-> out.status]
              /\ lastGood' = IF out.status = "ok" THEN TrimAndFilter(out.stdout) ELSE lastGood
              /\ responses' = <<ResourceContents(Join(updateShortcutsList(out)))>>
              /\ capLog' = <<"shortcuts list">>
              /\ capResult' = IF out.status = "ok"
                              THEN StringResult(Join(out.stdout))
                              ELSE NoResult
              /\ req' = [kind |-> "read", name |-> uri, args |-> NoArgs, pc |-> "done",
                         outcome |-> out.status]
       ELSE /\ responses' = <<PlainError(<<"Resource not found: ", uri>>)>>
            /\ capLog' = <<>>
            /\ capResult' = NoResult
            /\ req' = [kind |-> "read", name |-> uri, args |-> NoArgs, pc |-> "done",
                       outcome |-> "none"]
            /\ UNCHANGED <<availableShortcuts, lastRefresh, lastGood>>
  /\ served' = served + 1
  /\ usedHandle' = "none"
  /\ capArgs' = NoCapArgs
  /\ prevFailed' = (prevFailed \/ CapFailed(req))
  /\ prevOutcome' = Remember(req, responses, prevOutcome)
  /\ UNCHANGED <<adapter, env, phase, connected, channelClosed, exitStatus, signalled,
                 loginOutcome, registration, firstCatalog, concVars, pureVars, handle, handleWrites>>

Next ==
  \/ StartupFail
  \/ Startup
  \/ StartupShortcuts
  \/ StartupBluesky
  \/ LoginReturn
  \/ Connect
  \/ TemplateResume
  \/ Sigint
  \/ CloseReturn
  \/ ListTools
  \/ CallTool
  \/ CapabilityReturn
  \/ ShortcutsCallTool
  \/ ListResources
  \/ ReadResource

Spec == Init /\ [][Next]_vars

(* ---- overlapping invocations of the Obsidian server ---- *)
\* The SDK starts a handler for every request it reads and does not wait for
\* the handlers already suspended, so a search_notes invocation and write_note
\* invocations can be in flight together.  Each step below is the part of a
\* handler between two awaits.

\* the serving Obsidian process, with any notes in the vault
ObsidianInit ==
  /\ rss = NoRssCall
  /\ notes = NoNotes
  /\ query = NoQuery
  /\ usedHandle = "none"
  /\ handleWrites = 0
  /\ handle = "none"
  /\ adapter = "Obsidian"
  /\ env = [k \in RequiredConfig("Obsidian") |-> "x"]
  /\ phase = "serving"
  /\ connected = TRUE
  /\ channelClosed = FALSE
  /\ exitStatus = "none"
  /\ signalled = FALSE
  /\ loginOutcome = "none"
  /\ served = 0
  /\ req = NoRequest
  /\ capLog = <<>>
  /\ responses = <<>>
  /\ availableShortcuts = <<>>
  /\ lastRefresh = NoRefresh
  /\ prevFailed = FALSE
  /\ capArgs = NoCapArgs
  /\ prevOutcome = NoOutcome
  /\ capResult = NoResult
  /\ registration = "final"
  /\ firstCatalog = NotListed
  /\ lastGood = <<>>
  /\ vault \in [Range(Notes) -> Contents \cup {"absent"}]
  /\ search = NoSearch
  /\ pendingWrites = {}
  /\ writesStarted = 0
  /\ snaps = {}

RECURSIVE Listed(_, _)
\* the entries of `entries` that exist in the vault v, in order
Listed(v, entries) ==
  IF entries = <<>>
  THEN <<>>
  ELSE IF v[Head(entries)] # "absent"
       THEN <<Head(entries)>> \o Listed(v, Tail(entries))
       ELSE Listed(v, Tail(entries))

RECURSIVE Matching(_, _)
\* the entries of `entries` whose content in the vault v includes the query
Matching(v, entries) ==
  IF entries = <<>>
  THEN <<>>
  ELSE IF v[Head(entries)] = "hit"
       THEN <<Head(entries)>> \o Matching(v, Tail(entries))
       ELSE Matching(v, Tail(entries))

\* what searchNotes returns when nothing else runs while it does
SearchAlone(v) == Matching(v, Notes)

\* search_notes: the handler and searchNotes up to `await fs.readdir(dir)`
SearchBegin ==
  /\ search.pc = "idle"
  /\ search' = [search EXCEPT !.pc = "readdir"]
  /\ snaps' = {vault}
  /\ UNCHANGED <<mainVars, pureVars, vault, pendingWrites, writesStarted>>

\* fs.readdir resolves with the files present now
ReaddirReturn ==
  /\ search.pc = "readdir"
  /\ search' = [pc |-> IF Listed(vault, Notes) = <<>> THEN "done" ELSE "reading",
                todo |-> Listed(vault, Notes), found |-> <<>>]
  /\ UNCHANGED <<mainVars, pureVars, vault, pendingWrites, writesStarted, snaps>>

\* `await this.readNote(relativePath)` resolves with the file as it is now;
\* the note is pushed if it includes the query; the loop goes on or ends
ReadReturn ==
  /\ search.pc = "reading"
  /\ search' = [pc |-> IF Len(search.todo) = 1 THEN "done" ELSE "reading",
                todo |-> Tail(search.todo),
                found |-> IF vault[Head(search.todo)] = "hit"
                          THEN Append(search.found, Head(search.todo))
                          ELSE search.found]
  /\ UNCHANGED <<mainVars, pureVars, vault, pendingWrites, writesStarted, snaps>>

\* write_note: the handler and writeNote up to `await fs.writeFile(...)`
WriteBegin ==
  /\ writesStarted < MaxWrites
  /\ \E n \in Range(Notes) : \E c \in Contents :
       pendingWrites' = pendingWrites \cup {[path |-> n, content |-> c]}
  /\ writesStarted' = writesStarted + 1
  /\ UNCHANGED <<mainVars, pureVars, vault, search, snaps>>

\* fs.writeFile resolves: the file has its new content (taken here as one
\* step), and the handler returns its confirmation
WriteReturn ==
  /\ \E w \in pendingWrites :
       /\ vault' = [vault EXCEPT ![w.path] = w.content]
       /\ pendingWrites' = pendingWrites \ {w}
  /\ snaps' = IF search.pc \in {"readdir", "reading"} THEN snaps \cup {vault'} ELSE snaps
  /\ UNCHANGED <<mainVars, pureVars, search, writesStarted>>

ObsidianNext ==
  \/ SearchBegin
  \/ ReaddirReturn
  \/ ReadReturn
  \/ WriteBegin
  \/ WriteReturn

SpecObsidian == ObsidianInit /\ [][ObsidianNext]_vars

(* ---- the RSS, Obsidian and Supabase handlers, one call at a time ---- *)
\* a process of adapter a that has started, connected and handled nothing
\* yet, with no overlapping invocations
ServingProcess(a) ==
  /\ adapter = a
  /\ env = [k \in RequiredConfig(a) |-> "x"]
  /\ phase = "serving"
  /\ connected = TRUE
  /\ channelClosed = FALSE
  /\ exitStatus = "none"
  /\ signalled = FALSE
  /\ loginOutcome = "none"
  /\ served = 0
  /\ req = NoRequest
  /\ capLog = <<>>
  /\ responses = <<>>
  /\ availableShortcuts = <<>>
  /\ lastRefresh = NoRefresh
  /\ prevFailed = FALSE
  /\ capArgs = NoCapArgs
  /\ prevOutcome = NoOutcome
  /\ capResult = NoResult
  /\ registration = "final"
  /\ firstCatalog = NotListed
  /\ lastGood = <<>>
  /\ handle = ConstructedHandle(a)
  /\ handleWrites = Assigned(0, ConstructedHandle(a))
  /\ usedHandle = "none"
  /\ vault = [n \in Range(Notes) |-> "absent"]
  /\ search = NoSearch
  /\ pendingWrites = {}
  /\ writesStarted = 0
  /\ snaps = {}

\* the serving RSS, Obsidian or Supabase process; for RSS, the feed
\* parser.parseURL resolves with
CallsInit ==
  /\ \E a \in {"RSS", "Obsidian", "Supabase"} : ServingProcess(a)
  /\ rss \in IF adapter = "RSS"
             THEN {[NoRssCall EXCEPT !.feed = f] : f \in Feeds}
             ELSE {NoRssCall}
  /\ notes = NoNotes
  /\ query = NoQuery

\* fetch_feed: handleFetchFeed({url, limit}) on the parsed feed
FetchFeed ==
  /\ adapter = "RSS"
  /\ rss.pc = "idle"
  /\ \E limit \in LimitChoices :
       rss' = [rss EXCEPT !.pc = "done", !.tool = "fetch_feed", !.limit = limit,
                          !.items = fetchFeedItems(rss.feed, limit)]
  /\ UNCHANGED <<mainVars, concVars, notes, query>>

\* get_feed_items: handleGetFeedItems({url, limit, filter}) on the parsed feed
GetFeedItems ==
  /\ adapter = "RSS"
  /\ rss.pc = "idle"
  /\ \E limit \in LimitChoices : \E filter \in FilterChoices :
       rss' = [rss EXCEPT !.pc = "done", !.tool = "get_feed_items", !.limit = limit,
                          !.filter = filter,
                          !.items = getFeedItems(rss.feed, limit, filter)]
  /\ UNCHANGED <<mainVars, concVars, notes, query>>

\* write_note: writeNote(path, content, frontmatter), fs.writeFile resolving;
\* the content is a text without or with a block of its own, the frontmatter
\* undefined, {} or {k: 1}
WriteNote ==
  /\ adapter = "Obsidian"
  /\ \E p \in NotePaths : \E fm \in {"absent", "{}", "k1"} :
     \E c \in {[matter |-> "none", nl |-> FALSE], [matter |-> "none", nl |-> TRUE],
               [matter |-> "k2", nl |-> TRUE]} :
       LET full == PathJoin(VaultRoot, p) IN
         notes' =
           [files |-> [notes.files EXCEPT ![full] = FileContent(c, fm)],
            written |-> [notes.written EXCEPT
                           ![full] = [path |-> p, content |-> c, frontmatter |-> fm]],
            op |-> [kind |-> "write", path |-> p, accessed |-> full, outcome |-> "ok",
                    result |-> NoNote]]
  /\ UNCHANGED <<mainVars, concVars, rss, query>>

\* read_note: readNote(path); fs.readFile rejects when there is no such file
ReadNote ==
  /\ adapter = "Obsidian"
  /\ \E p \in NotePaths :
       LET full == PathJoin(VaultRoot, p) IN
         notes' =
           [notes EXCEPT
              !.op = IF notes.files[full] = NoFile
                     THEN [kind |-> "read", path |-> p, accessed |-> full,
                           outcome |-> "reject", result |-> NoNote]
                     ELSE [kind |-> "read", path |-> p, accessed |-> full,
                           outcome |-> "ok", result |-> readNote(p, notes.files[full])]]
  /\ UNCHANGED <<mainVars, concVars, rss, query>>

\* query_data / update_data / delete_data up to the forEach: the
\* destructuring (`filters = {}` in query_data only) and from(table).select /
\* update / delete; Object.entries(undefined) throws into the catch block
QueryBegin ==
  /\ adapter = "Supabase"
  /\ query.pc = "idle"
  /\ \E tool \in {"query_data", "update_data", "delete_data"} :
     \E filters \in FiltersChoices :
     \E limit \in (IF tool = "query_data" THEN RowLimitChoices ELSE {NoRowLimit}) :
       LET entries == tool = "query_data" \/ filters.present IN
         query' = [NoQuery EXCEPT !.pc = IF entries THEN "filtering" ELSE "done",
                                  !.tool = tool, !.filters = filters, !.limit = limit,
                                  !.todo = filters.keys,
                                  !.outcome = IF entries THEN "none" ELSE "throw"]
  /\ UNCHANGED <<mainVars, concVars, rss, notes>>

\* one round of the forEach: query = query.eq(key, value)
ApplyFilter ==
  /\ query.pc = "filtering"
  /\ query.todo # <<>>
  /\ query' = [query EXCEPT !.todo = Tail(query.todo),
                            !.eqs = Append(query.eqs, Head(query.todo))]
  /\ UNCHANGED <<mainVars, concVars, rss, notes>>

\* after the forEach: `if (limit) query = query.limit(limit)` of query_data
\* (absent and 0 are falsy), then the await, which sends the query
Execute ==
  /\ query.pc = "filtering"
  /\ query.todo = <<>>
  /\ query' = [query EXCEPT !.pc = "awaiting",
                            !.limited = IF /\ query.tool = "query_data"
                                           /\ query.limit.given
                                           /\ query.limit.n # 0
                                        THEN query.limit
                                        ELSE NoRowLimit,
                            !.sent = TRUE]
  /\ UNCHANGED <<mainVars, concVars, rss, notes>>

\* the awaited query settles
QueryReturn ==
  /\ query.pc = "awaiting"
  /\ \E out \in Outcomes("Supabase") :
       query' = [query EXCEPT !.pc = "done", !.outcome = out]
  /\ UNCHANGED <<mainVars, concVars, rss, notes>>

CallsNext ==
  \/ FetchFeed
  \/ GetFeedItems
  \/ WriteNote
  \/ ReadNote
  \/ QueryBegin
  \/ ApplyFilter
  \/ Execute
  \/ QueryReturn

SpecCalls == CallsInit /\ [][CallsNext]_vars

(* ---- properties ---- *)
\* a Call-Tool request has been handled to its end
CallDone == req.kind = "call" /\ req.pc = "done"

\* the request names a tool of the catalog and lacks one of its required fields
MissingRequired == \E f \in Required(req.name) : ~Has(req.args, f)

\* the effective isError of a result: an absent key counts as false
IsErrorEnvelope(r) == r.kind = "result" /\ r.hasContent /\ r.isError = "true"

\* a response of the given protocol kind: a protocol error with that code, or
\* an isError envelope
HasKind(r, code) == (r.kind = "error" /\ r.code = code) \/ IsErrorEnvelope(r)

\* C1: in each of the seven adapters a Call-Tool request for a name outside
\* the advertised catalog ends in a MethodNotFound-kind outcome with no
\* capability operation invoked.
C1_UnknownToolIsMethodNotFound ==
  (adapter \in NamedAdapters /\ CallDone /\ req.name \notin CatalogNames(adapter))
    => /\ Len(responses) = 1
       /\ HasKind(responses[1], "MethodNotFound")
       /\ capLog = <<>>

\* C2: a Call-Tool request for a catalog tool that lacks a required field
\* invokes no capability operation and ends in an InvalidParams-kind outcome.
C2_MissingRequiredIsInvalidParams ==
  (adapter \in NamedAdapters /\ req.kind = "call" /\ req.name \in CatalogNames(adapter)
     /\ MissingRequired)
    => /\ capLog = <<>>
       /\ req.pc = "done"
       /\ Len(responses) = 1
       /\ HasKind(responses[1], "InvalidParams")

\* C3: a capability failure is returned from the handler as an envelope with
\* isError = true and one text block naming the cause, never thrown (the
\* listing refresh of list_shortcuts, which has its own policy, left aside).
C3_CapabilityFailureIsErrorEnvelope ==
  (adapter \in NamedAdapters /\ CallDone /\ CapFailed(req) /\ req.name # "list_shortcuts")
    => /\ Len(responses) = 1
       /\ IsErrorEnvelope(responses[1])
       /\ Len(responses[1].content) = 1
       /\ responses[1].content[1].type = "text"
       /\ ~EmptyString(responses[1].content[1].text)

\* C4: when the capability call succeeds the response is an envelope that is
\* not an error and whose content is exactly one text block.
C4_SuccessIsOneTextBlock ==
  (adapter \in NamedAdapters /\ CallDone /\ req.outcome = "ok")
    => /\ Len(responses) = 1
       /\ responses[1].kind = "result"
       /\ responses[1].hasContent
       /\ responses[1].isError # "true"
       /\ Len(responses[1].content) = 1
       /\ responses[1].content[1].type = "text"

\* C5: every handled Call-Tool request has exactly one response, which is an
\* envelope with a content sequence or a structured protocol error.
C5_ExactlyOneWellFormedResponse ==
  CallDone
    => /\ Len(responses) = 1
       /\ \/ responses[1].kind = "error"
          \/ responses[1].kind = "result" /\ responses[1].hasContent

\* the step that ends an invocation whose capability call failed
CompletesFailed ==
  /\ req'.kind = "call" /\ req'.pc = "done" /\ CapFailed(req')
  /\ (req.pc = "awaiting" \/ served' # served)

\* C6 (as stated): an invocation whose capability call fails leaves the
\* process running and the cached shortcut list as it was.
C6_FailureLeavesListingUntouched ==
  [][CompletesFailed =>
       /\ phase' = "serving" /\ exitStatus' = "none"
       /\ availableShortcuts' = availableShortcuts]_vars

\* C6 (amended): an invocation whose capability call fails leaves the
\* process running and connected; the cached shortcut list is as it was,
\* except that a failed `shortcuts list` of list_shortcuts empties it; and a
\* following List-Tools returns the same catalog and a following Call-Tool
\* gets its one response.
C6_FailureLeavesProcessServing ==
  /\ [][CompletesFailed =>
          /\ phase' = "serving" /\ exitStatus' = "none" /\ connected'
          /\ \/ availableShortcuts' = availableShortcuts
             \/ req'.name = "list_shortcuts" /\ availableShortcuts' = <<>>]_vars
  /\ []((prevFailed /\ req.kind = "list") => responses = <<Listing(Catalog(adapter))>>)
  /\ []((prevFailed /\ CallDone) => Len(responses) = 1)

\* a failed invocation was followed by a served List-Tools request
C6_Witness ==
  prevFailed /\ req.kind = "list" /\ req.pc = "done" /\ phase = "serving"

\* C7: in the Shortcuts adapter a failing `shortcuts list` leaves the stored
\* list empty, and the list_shortcuts tool, the shortcuts://list read and the
\* start-up refresh that ran it complete normally on the empty list.
C7_FailedListingGivesEmptyList ==
  (adapter = "Shortcuts" /\ lastRefresh.status = "reject")
    => /\ availableShortcuts = <<>>
       /\ connected
       /\ exitStatus \in {"none", "130"}
       /\ (lastRefresh.by = "list_shortcuts" /\ req.kind = "call" /\ req.name = "list_shortcuts")
            => responses = <<Envelope(<<"Available shortcuts:\n">>, "false")>>
       /\ (lastRefresh.by = "resource" /\ req.kind = "read" /\ req.name = "shortcuts://list")
            => responses = <<ResourceContents(<<>>)>>

\* list_shortcuts ran a failing `shortcuts list` as the second request
C7_Witness ==
  /\ adapter = "Shortcuts" /\ served = 2
  /\ lastRefresh = [by |-> "list_shortcuts", status |-> "reject"]
  /\ req.kind = "call" /\ req.name = "list_shortcuts"

\* C8: with a required configuration value absent at start, nothing is ever
\* connected or handled and the process, once started, has exited non-zero.
C8_MissingConfigFailsFast ==
  (\E k \in RequiredConfig(adapter) : env[k] = "<unset>")
    => /\ ~connected
       /\ served = 0
       /\ responses = <<>>
       /\ phase \in {"start", "exited"}
       /\ phase = "exited" => exitStatus \notin {"none", "0"}

\* Supabase started with only SUPABASE_KEY absent and has exited
C8_Witness ==
  /\ adapter = "Supabase" /\ env["SUPABASE_URL"] = "x" /\ env["SUPABASE_KEY"] = "<unset>"
  /\ phase = "exited"

\* C9: in the Bluesky adapter a login that is unsuccessful or throws ends
\* the process with status 1 and nothing connected or handled; the transport
\* is connected only after a successful login.
C9_FailedLoginExits ==
  adapter = "Bluesky"
    => /\ loginOutcome \in {"unsuccessful", "throw"}
            => (phase = "exited" /\ exitStatus = "1" /\ ~connected /\ served = 0)
       /\ (connected \/ served > 0) => loginOutcome = "success"

\* the login reported success = false and the process has exited
C9_Witness == adapter = "Bluesky" /\ loginOutcome = "unsuccessful" /\ phase = "exited"

\* C10: in every adapter an exit that follows a termination signal comes
\* after the channel was closed and has status 0.
C10_SignalClosesThenExitsZero ==
  (signalled /\ phase = "exited") => (channelClosed /\ exitStatus = "0")

\* C11: whenever a capability has been invoked for a Call-Tool request that
\* leaves out an optional argument with a declared default, the capability got
\* that declared default for the argument.
C11_AbsentOptionalGetsDeclaredDefault ==
  (req.kind = "call" /\ capLog # <<>>)
    => \A f \in DOMAIN DeclaredDefaults(req.name) :
         ~Has(req.args, f)
           => f \in DOMAIN capArgs /\ capArgs[f] = DeclaredDefaults(req.name)[f]

\* C12: within one adapter, the response to a malformed request and the
\* response to a well-formed request whose capability failed never have the
\* same shape (the same error code, or envelopes that differ only in text).
C12_MalformedDistinctFromCapabilityFailure ==
  (/\ RequestClass(adapter, req) \in {"malformed", "capfail"}
   /\ prevOutcome.class \in {"malformed", "capfail"}
   /\ prevOutcome.class # RequestClass(adapter, req))
    => ResponseShape(responses[1]) # prevOutcome.shape

RendersWholeResult(a, name) ==
  \/ a \in {"Telegram", "Supabase"}
  \/ a = "Obsidian" /\ name \in {"read_note", "search_notes"}
  \/ a = "Bluesky" /\ name # "bluesky_search_profiles"

C14_ListingIsStable ==
  (req.kind = "list" /\ firstCatalog.seen) => responses[1].tools = firstCatalog.tools

C14_Witness ==
  /\ req.kind = "list"
  /\ firstCatalog.calledSince
  /\ prevFailed
  /\ adapter = "Shortcuts"
  /\ availableShortcuts # <<>>

\* C15: the result of a search_notes invocation is what the search would have
\* returned had it run alone on the vault as it was at some single moment
\* between the request and the response, whatever write_note invocations
\* overlapped it.
C15_SearchSeesOneVault ==
  search.pc = "done" => \E v \in snaps : search.found = SearchAlone(v)

\* C16: in the Shortcuts adapter the stored list, and the list in any
\* list_shortcuts result or shortcuts://list contents, is the complete list of
\* the most recent successful refresh or the empty list.
C16_ListIsWholeOrEmpty ==
  adapter = "Shortcuts"
    => /\ availableShortcuts \in {lastGood, <<>>}
       /\ (req.kind = "call" /\ req.name = "list_shortcuts")
            => \E l \in {lastGood, <<>>} :
                 responses = <<Envelope(<<"Available shortcuts:\n">> \o Join(l), "false")>>
       /\ (req.kind = "read" /\ req.name = "shortcuts://list")
            => \E l \in {lastGood, <<>>} : responses = <<ResourceContents(Join(l))>>

C16_Witness ==
  /\ adapter = "Shortcuts"
  /\ served = 2
  /\ req.kind = "call"
  /\ req.name = "list_shortcuts"
  /\ lastRefresh.status = "ok"
  /\ lastGood = <<"b">>
  /\ responses[1].content[1].text = <<"Available shortcuts:\n", "b">>

\* the list this request's own run of `shortcuts list` produced
OwnListing == IF lastRefresh.status = "ok" THEN lastGood ELSE <<>>

\* C17: a step that handles a request changes nothing of the process that a
\* later request can observe, except the refreshed shortcut list; and what
\* the Shortcuts server answers is made of the output of the command this
\* very request ran, not of what earlier requests left behind.
C17_HandlersKeepNoState ==
  /\ [][(req' # req)
         => UNCHANGED <<adapter, env, phase, connected, channelClosed, exitStatus,
                        signalled, loginOutcome, registration>>]_vars
  /\ []((adapter = "Shortcuts" /\ req.kind = "call" /\ req.name = "list_shortcuts")
          => responses =
               <<Envelope(<<"Available shortcuts:\n">> \o Join(OwnListing), "false")>>)
  /\ []((adapter = "Shortcuts" /\ req.kind = "read" /\ req.name = "shortcuts://list")
          => responses = <<ResourceContents(Join(OwnListing))>>)
  /\ []((adapter = "Shortcuts" /\ req.kind = "call" /\ req.name = "run_shortcut")
          => responses =
               <<IF req.outcome = "ok"
                 THEN Envelope(IF EmptyString(capResult.pieces)
                               THEN <<"Shortcut executed successfully">>
                               ELSE capResult.pieces, "false")
                 ELSE Envelope(<<"Failed to run shortcut: ">> \o CauseMessage, "true")>>)

C17_Witness ==
  /\ adapter = "Shortcuts"
  /\ served = 2
  /\ req.kind = "call"
  /\ req.name = "list_shortcuts"
  /\ lastRefresh.status = "reject"
  /\ lastGood # <<>>
  /\ responses[1].content[1].text = <<"Available shortcuts:\n">>

\* C18: in the Supabase, Telegram and Bluesky servers the client handle is
\* assigned once, before the transport is connected, no step changes it
\* afterwards, and every capability call is made on it.
C18_HandleAssignedOnce ==
  /\ [][handle # "none" => handle' = handle]_vars
  /\ [](adapter \in {"Supabase", "Telegram", "Bluesky"}
          => /\ handleWrites <= 1
             /\ connected => (handleWrites = 1 /\ handle # "none")
             /\ capLog # <<>> => (usedHandle = handle /\ usedHandle # "none"))

C18_Witness ==
  /\ adapter = "Bluesky"
  /\ served = 2
  /\ req.pc = "awaiting"
  /\ handleWrites = 1
  /\ usedHandle = "agent"

\* C19: in every catalog a List-Tools request returns, no two entries have
\* the same name.
C19_CatalogNamesUnique ==
  req.kind = "list"
    => \A i, j \in DOMAIN responses[1].tools :
         i # j => responses[1].tools[i] # responses[1].tools[j]

C19_Witness ==
  /\ req.kind = "list"
  /\ adapter = "Bluesky"
  /\ Len(responses[1].tools) = 8

\* the text names the tool as unknown
NamesUnknownTool(text) == \E i \in DOMAIN text : text[i] \in {"Unknown tool: ", "Tool not found"}

\* the response of the unknown-tool branch of a handler
UnknownToolBranch(r) ==
  \/ r.kind = "error" /\ NamesUnknownTool(r.message)
  \/ r.kind = "result" /\ r.hasContent /\ NamesUnknownTool(r.content[1].text)

\* the response refuses the request: an error, or an envelope that carries one
Refused(r) ==
  \/ r.kind = "error"
  \/ r.kind = "result" /\ r.hasContent
       /\ (r.isError = "true" \/ r.content[1].text[1] = "json:error:")

\* C20: a Call-Tool request for an advertised name never ends in the
\* unknown-tool branch, and one for a name that is not advertised is refused
\* without any backing operation being invoked.
C20_AdvertisedEqualsDispatched ==
  req.kind = "call"
    => IF req.name \in Range(LiveCatalog(adapter, registration))
       THEN req.pc = "done" => ~UnknownToolBranch(responses[1])
       ELSE /\ req.pc = "done"
            /\ capLog = <<>>
            /\ Refused(responses[1])

C20_Witness ==
  /\ adapter = "Template"
  /\ CallDone
  /\ req.name = "name_of_tool"
  /\ UnknownToolBranch(responses[1])

\* the kind of the McpError a CallTool handler throws for this request from
\* inside its switch: the `default:` case, and the url check of the RSS
\* cases; "none" when it throws none
ThrownMcpError(a, name, args) ==
  CASE a \in {"Telegram", "Supabase", "Obsidian"} /\ name \notin CatalogNames(a) ->
         "MethodNotFound"
    [] a = "RSS" /\ name \notin CatalogNames(a) -> "MethodNotFound"
    [] a = "RSS" /\ name \in CatalogNames(a) /\ ~IsString(args, "url") -> "InvalidParams"
    [] OTHER -> "none"

\* C21: when a Call-Tool handler throws an McpError of some kind from inside
\* its switch, the caller gets a protocol error of that same kind: the catch
\* block neither changes the kind nor turns the error into a text envelope.
C21_McpErrorKeepsItsKind ==
  (CallDone /\ ThrownMcpError(adapter, req.name, req.args) # "none")
    => /\ Len(responses) = 1
       /\ responses[1].kind = "error"
       /\ responses[1].code = ThrownMcpError(adapter, req.name, req.args)

\* an item satisfies every filter that was supplied: strictly later than
\* `after`, strictly earlier than `before`, including the search term; an item
\* without a date that can be read satisfies no date filter
Satisfies(it, filter) ==
  /\ (filter.present /\ filter.after # 0)
       => (it.pub > 0 /\ filter.after > 0 /\ it.pub > filter.after)
  /\ (filter.present /\ filter.before # 0)
       => (it.pub > 0 /\ filter.before > 0 /\ it.pub < filter.before)
  /\ (filter.present /\ filter.search # "absent") => it.text = "hit"

\* the items of the feed that satisfy the filter, in feed order
Satisfying(feed, filter) ==
  LET Test(it) == Satisfies(it, filter) IN SelectSeq(feed, Test)

\* s is the beginning of t
IsPrefix(s, t) == Len(s) <= Len(t) /\ \A i \in DOMAIN s : s[i] = t[i]

\* C22: fetch_feed and get_feed_items return at most `limit` items for every
\* numeric limit supplied, at most 10 when none is supplied, and the items
\* returned are the first ones of the filtered feed, in feed order.
C22_AtMostLimitItems ==
  rss.pc = "done"
    => /\ rss.limit.kind = "number"
            => (rss.items = <<>> \/ 2 * Len(rss.items) <= rss.limit.halves)
       /\ rss.limit.kind = "absent" => Len(rss.items) <= 10
       /\ IsPrefix(rss.items, Satisfying(rss.feed, rss.filter))

\* the number of items a limit asks for at most: the limit supplied, 10
\* when none is
Asked(limit) ==
  IF limit.kind = "number"
  THEN (IF limit.halves > 0 THEN limit.halves \div 2 ELSE 0)
  ELSE 10

\* C23: get_feed_items returns the first `limit` items of the feed that
\* satisfy every supplied filter (all of them when there are fewer), dates
\* compared strictly and undated items excluded by a date filter.
C23_FiltersThenLimit ==
  (rss.pc = "done" /\ rss.tool = "get_feed_items")
    => LET want == Satisfying(rss.feed, rss.filter)
           n == IF Asked(rss.limit) < Len(want) THEN Asked(rss.limit) ELSE Len(want)
       IN rss.items = SubSeq(want, 1, n)

\* the response reports that the request had no arguments
ReportsNoArguments(r) ==
  LET text == IF r.kind = "error"
              THEN r.message
              ELSE IF r.hasContent THEN r.content[1].text ELSE <<>>
  IN \E i \in DOMAIN text : text[i] \in {"No arguments provided", "Arguments are required"}

\* C24: in the Bluesky and iOS simulator servers a Call-Tool request without
\* an arguments object is answered at once, for every tool name, with the
\* report of the missing arguments and never with the unknown-tool report,
\* and no capability is called for it.
C24_NoArgumentsRejectedFirst ==
  (adapter \in {"Bluesky", "IosSimulator"} /\ req.kind = "call" /\ ~req.args.present)
    => /\ req.pc = "done"
       /\ capLog = <<>>
       /\ Len(responses) = 1
       /\ ReportsNoArguments(responses[1])
       /\ ~UnknownToolBranch(responses[1])

C24_Witness ==
  /\ adapter = "Bluesky"
  /\ CallDone
  /\ req.name = "bluesky_get_profile"
  /\ ~req.args.present
  /\ ReportsNoArguments(responses[1])

\* the path lies below the vault root
InsideVault(full) ==
  /\ Len(full) > Len(VaultRoot)
  /\ SubSeq(full, 1, Len(VaultRoot)) = VaultRoot

\* C25: the file read_note or write_note accesses lies inside the vault
\* root, whatever the `path` argument.
C25_AccessStaysInVault ==
  notes.op.kind \in {"read", "write"} => InsideVault(notes.op.accessed)

\* C28: a read_note that succeeds on a path whose file was last written by
\* write_note(path, content, frontmatter) returns that content, that
\* frontmatter (empty when none was given), that path and the base name of
\* the path without .md as title.
C28_WriteThenReadRoundTrips ==
  (/\ notes.op.kind = "read"
   /\ notes.op.outcome = "ok"
   /\ notes.written[notes.op.accessed].path = notes.op.path)
    => LET w == notes.written[notes.op.accessed]
           note == notes.op.result
       IN /\ note.content = w.content
          /\ note.frontmatter = (IF w.frontmatter = "absent" THEN "{}" ELSE w.frontmatter)
          /\ note.path = w.path
          /\ note.title = "n"

\* C26: an update or delete that has been sent carries every entry of
\* `filters` as an equality constraint, and carries at least one: with
\* `filters` absent or empty nothing is sent.
C26_NoUnconstrainedWrite ==
  (query.tool \in {"update_data", "delete_data"} /\ query.sent)
    => /\ query.filters.present
       /\ query.eqs = query.filters.keys
       /\ query.eqs # <<>>

\* C27: a query_data query that has been sent is limited to the number of
\* rows of every numeric `limit` supplied, 0 included, and carries every
\* entry of `filters` as an equality constraint.
C27_LimitAndFiltersApplied ==
  (query.tool = "query_data" /\ query.sent)
    => /\ query.limit.given => query.limited = query.limit
       /\ query.eqs = query.filters.keys

====
